---- MODULE Spec2Model ----
(***************************************************************************)
(* MetricsTracker and infer_metric_direction of                            *)
(* kerastuner/engine/metrics_tracking.py.                                  *)
(*                                                                         *)
(* Python objects that the code shares by reference (the names list, the   *)
(* directions dict, the metrics_history dict and every observation list)   *)
(* live in a heap of numbered objects; a tracker and a config are records  *)
(* of three references.  Every method is an operator from a heap to a      *)
(* Result (the heap after the call, the exception raised or "", and the    *)
(* value returned); the actions apply one method call to the state.        *)
(***************************************************************************)
EXTENDS Integers, Sequences, FiniteSets, TLC

VARIABLES
    nameLists,   \* heap: list objects holding metric names
    dirDicts,    \* heap: dict objects, name -> direction
    histDicts,   \* heap: dict objects, name -> reference of an observation list
    obsLists,    \* heap: list objects holding the elements of a history
    trackers,    \* MetricsTracker instances: names, directions, metrics_history
    configs,     \* dicts returned by get_config: the same three keys
    catalog,     \* keras.metrics.get: canonical name -> descriptor, partial
    call,        \* the last call made
    ret,         \* its outcome: [exc, val]
    budget,      \* calls the client may still make
    callers      \* threads inside update: where each stands, and its locals

vars == <<nameLists, dirDicts, histDicts, obsLists, trackers, configs,
          catalog, call, ret, budget, callers>>

(***************************************************************************)
(* Bounds of the exploration.                                              *)
(***************************************************************************)
MaxCalls == 3
MaxQueryCalls == 3
MaxInferCalls == 2
MaxConfigCalls == 4

(***************************************************************************)
(* Python values.                                                          *)
(***************************************************************************)
PyNone == [kind |-> "None"]
PyBool(b) == [kind |-> "bool", b |-> b]
PyInt(n) == [kind |-> "int", num |-> n]
PyFloat(n) == [kind |-> "float", nan |-> FALSE, num |-> n]
PyNaN == [kind |-> "float", nan |-> TRUE, num |-> 0]
PyStr(s) == [kind |-> "str", chars |-> s]
PyTuple(items) == [kind |-> "tuple", items |-> items]
ListRef(i) == [kind |-> "list", ref |-> i]
PyDict(d) == [kind |-> "dict", items |-> d]

\* Metric names are Python strings: sequences of characters.
VAL == <<"v", "a", "l", "_">>
LOSS == <<"l", "o", "s", "s">>
ACCURACY == <<"a", "c", "c", "u", "r", "a", "c", "y">>
MSE == <<"m", "s", "e">>

\* MetricObservation = collections.namedtuple('MetricObservation', 'value t')
MetricObservation(value, t) == [kind |-> "MetricObservation", value |-> value, t |-> t]

\* A plain two-element record [value, t]: what a stored config holds for an
\* observation; it has no attribute `value`.
PlainPair(value, t) == [kind |-> "pair", value |-> value, t |-> t]

\* Float comparisons: every comparison with NaN is false.
FloatLt(a, b) == ~a.nan /\ ~b.nan /\ a.num < b.num
FloatGt(a, b) == ~a.nan /\ ~b.nan /\ a.num > b.num
FloatLe(a, b) == ~a.nan /\ ~b.nan /\ a.num <= b.num
FloatGe(a, b) == ~a.nan /\ ~b.nan /\ a.num >= b.num

\* float(value): a number converts, the text 'nan' parses to NaN, any other
\* text raises ValueError and None raises TypeError.
float(value) ==
    CASE value.kind = "float" -> [exc |-> "", val |-> value]
      [] value.kind = "int" -> [exc |-> "", val |-> PyFloat(value.num)]
      [] value.kind = "str" /\ value.chars = <<"n", "a", "n">> -> [exc |-> "", val |-> PyNaN]
      [] value.kind = "str" -> [exc |-> "InvalidValue", val |-> PyNone]
      [] OTHER -> [exc |-> "InvalidValue", val |-> PyNone]

(***************************************************************************)
(* infer_metric_direction                                                  *)
(***************************************************************************)
_MAX_METRICS ==
    {"Accuracy", "BinaryAccuracy", "CategoricalAccuracy",
     "SparseCategoricalAccuracy", "TopKCategoricalAccuracy",
     "SparseTopKCategoricalAccuracy", "TruePositives", "TrueNegatives",
     "Precision", "Recall", "AUC", "SensitivityAtSpecificity",
     "SpecificityAtSensitivity"}

_MAX_METRIC_FNS ==
    {"accuracy", "categorical_accuracy", "binary_accuracy",
     "sparse_categorical_accuracy"}

\* A metric descriptor: an instance of a keras Metric class (cls its class
\* name, fn the __name__ of the function a MeanMetricWrapper wraps, name its
\* `name` attribute) or a plain metric function (fn its __name__).
MetricInstance(cls, fn, name) ==
    [kind |-> "Metric", cls |-> cls, fn |-> fn, name |-> name]
MetricFunction(fn) ==
    [kind |-> "function", cls |-> "function", fn |-> fn, name |-> <<>>]

\* Lines 186-196: the identity of a descriptor and its direction.
identity_direction(metric) ==
    LET name == IF metric.kind = "Metric"
                THEN (IF metric.cls = "MeanMetricWrapper" THEN metric.fn ELSE metric.cls)
                ELSE metric.fn
    IN IF name \in _MAX_METRICS \/ name \in _MAX_METRIC_FNS THEN "max" ELSE "min"

\* Mutant of infer_metric_direction: 'loss' is looked up like any other name.
infer_metric_direction_by_catalog(cat, metric) ==
    IF metric.kind = "str"
    THEN LET s == metric.chars
             metric_name == IF Len(s) > 4 /\ SubSeq(s, 1, 4) = VAL
                            THEN SubSeq(s, 5, Len(s))
                            ELSE s
         IN IF metric_name \notin DOMAIN cat THEN "min"
            ELSE identity_direction(cat[metric_name])
    ELSE identity_direction(metric)

\* Mutant of infer_metric_direction: the name is looked up with its prefix.
infer_metric_direction_of_full_name(cat, metric) ==
    IF metric.kind = "str"
    THEN IF metric.chars = LOSS THEN "min"
         ELSE IF metric.chars \notin DOMAIN cat THEN "min"
         ELSE identity_direction(cat[metric.chars])
    ELSE identity_direction(metric)

\* Lines 171-196; cat is keras.metrics.get, a name outside its domain raises
\* ValueError there.
infer_metric_direction(cat, metric) ==
    IF metric.kind = "str"
    THEN LET s == metric.chars
             metric_name == IF Len(s) > 4 /\ SubSeq(s, 1, 4) = VAL
                            THEN SubSeq(s, 5, Len(s))
                            ELSE s
         IN IF metric_name = LOSS THEN "min"
            ELSE IF metric_name \notin DOMAIN cat THEN "min"
            ELSE identity_direction(cat[metric_name])
    ELSE identity_direction(metric)

(***************************************************************************)
(* The heap.                                                               *)
(***************************************************************************)
Heap ==
    [nameLists |-> nameLists, dirDicts |-> dirDicts, histDicts |-> histDicts,
     obsLists |-> obsLists, trackers |-> trackers, configs |-> configs]

Result(h, exc, val) == [h |-> h, exc |-> exc, val |-> val]
Return(h, val) == Result(h, "", val)
Raise(h, exc) == Result(h, exc, PyNone)

\* dict[key] = value
DictSet(d, key, value) == (key :> value) @@ d

\* The elements of a sequence, as a set.
Range(s) == {s[i] : i \in DOMAIN s}

(***************************************************************************)
(* MetricsTracker                                                          *)
(***************************************************************************)
Names(h, tr) == h.nameLists[h.trackers[tr].names]
Directions(h, tr) == h.dirDicts[h.trackers[tr].directions]
MetricsHistory(h, tr) == h.histDicts[h.trackers[tr].metrics_history]

\* Mutant of exists: no name is found.
exists_nowhere(h, tr, name) == FALSE

\* Line 39-40.
exists(h, tr, name) == name \in Range(Names(h, tr))

\* Lines 57-59: the three stores of a registration; the history is a new
\* empty list object.
register_store(h, tr, name, dir) ==
    LET T == h.trackers[tr]
        l == Len(h.obsLists) + 1
    IN [h EXCEPT !.nameLists[T.names] = Append(@, name),
                 !.dirDicts[T.directions] = DictSet(@, name, dir),
                 !.obsLists = Append(@, <<>>),
                 !.histDicts[T.metrics_history] = DictSet(@, name, l)]

\* Mutant of register: the check of lines 55-56 is lost.
register_without_duplicate_check(h, cat, tr, name, direction) ==
    LET dir == IF direction = "None" THEN infer_metric_direction(cat, PyStr(name))
               ELSE direction
    IN IF dir \notin {"min", "max"} THEN Raise(h, "InvalidDirection")
       ELSE Return(register_store(h, tr, name, dir), PyNone)

\* Mutant of register: the duplicate is looked for before the direction.
register_duplicate_check_first(h, cat, tr, name, direction) ==
    LET dir == IF direction = "None" THEN infer_metric_direction(cat, PyStr(name))
               ELSE direction
    IN IF name \in Range(Names(h, tr)) THEN Raise(h, "DuplicateMetric")
       ELSE IF dir \notin {"min", "max"} THEN Raise(h, "InvalidDirection")
       ELSE Return(register_store(h, tr, name, dir), PyNone)

\* Lines 48-59; direction "None" is the default argument.
register(h, cat, tr, name, direction) ==
    LET dir == IF direction = "None" THEN infer_metric_direction(cat, PyStr(name))
               ELSE direction
    IN IF dir \notin {"min", "max"} THEN Raise(h, "InvalidDirection")
       ELSE IF name \in Range(Names(h, tr)) THEN Raise(h, "DuplicateMetric")
       ELSE Return(register_store(h, tr, name, dir), PyNone)

\* Lines 42-46, from the i-th descriptor on; a metric function has no
\* attribute `name`.
RECURSIVE register_metrics_from(_, _, _, _, _)
register_metrics_from(h, cat, tr, metrics, i) ==
    IF i > Len(metrics) THEN Return(h, PyNone)
    ELSE LET metric == metrics[i]
             direction == infer_metric_direction(cat, metric)
         IN IF metric.kind # "Metric" THEN Raise(h, "AttributeError")
            ELSE LET r == register(h, cat, tr, metric.name, direction)
                 IN IF r.exc # "" THEN r
                    ELSE register_metrics_from(r.h, cat, tr, metrics, i + 1)

\* Lines 42-46; metrics is None or a list of descriptors.
register_metrics(h, cat, tr, metrics) ==
    register_metrics_from(h, cat, tr, IF metrics = PyNone THEN <<>> ELSE metrics.items, 1)

\* Lines 32-37: a new tracker with its own three empty containers.
__init__(h, cat, metrics) ==
    LET tr == Len(h.trackers) + 1
        h1 == [h EXCEPT !.nameLists = Append(@, <<>>),
                        !.dirDicts = Append(@, <<>>),
                        !.histDicts = Append(@, <<>>),
                        !.trackers = Append(@, [names |-> Len(h.nameLists) + 1,
                                                directions |-> Len(h.dirDicts) + 1,
                                                metrics_history |-> Len(h.histDicts) + 1])]
        r == register_metrics(h1, cat, tr, metrics)
    IN IF r.exc # "" THEN r ELSE Return(r.h, [kind |-> "MetricsTracker", ref |-> tr])

\* Mutant of get_history: an unknown name is registered and its new, empty
\* history returned.
get_history_registering(h, tr, name) ==
    IF name \notin Range(Names(h, tr))
    THEN LET r == register_store(h, tr, name, "min")
         IN Return(r, ListRef(MetricsHistory(r, tr)[name]))
    ELSE Return(h, ListRef(MetricsHistory(h, tr)[name]))

\* Lines 82-85: the list object itself is returned.
get_history(h, tr, name) ==
    IF name \notin Range(Names(h, tr)) THEN Raise(h, "UnknownMetric")
    ELSE IF name \notin DOMAIN MetricsHistory(h, tr) THEN Raise(h, "KeyError")
    ELSE Return(h, ListRef(MetricsHistory(h, tr)[name]))

\* [obs.value for obs in history]: an element that is no MetricObservation
\* has no attribute `value`.
HasValues(history) == \A i \in DOMAIN history : history[i].kind = "MetricObservation"
Values(history) == [i \in DOMAIN history |-> history[i].value]

\* np.nanmax / np.nanmin: fmax / fmin reduced over the values; NaN is dropped
\* unless every value is NaN.
fmax(a, b) == IF a.nan THEN b ELSE IF b.nan THEN a ELSE IF a.num >= b.num THEN a ELSE b
fmin(a, b) == IF a.nan THEN b ELSE IF b.nan THEN a ELSE IF a.num <= b.num THEN a ELSE b
RECURSIVE nanmax(_)
nanmax(values) ==
    IF Len(values) = 1 THEN values[1]
    ELSE fmax(nanmax(SubSeq(values, 1, Len(values) - 1)), values[Len(values)])
RECURSIVE nanmin(_)
nanmin(values) ==
    IF Len(values) = 1 THEN values[1]
    ELSE fmin(nanmin(SubSeq(values, 1, Len(values) - 1)), values[Len(values)])

\* Mutant of best_yet: the value is compared with the last one recorded.
best_yet_than_last(direction, value, history_values) ==
    IF history_values = <<>> THEN PyBool(TRUE)
    ELSE IF direction = "max"
    THEN PyBool(FloatGe(value, history_values[Len(history_values)]))
    ELSE IF direction = "min"
    THEN PyBool(FloatLe(value, history_values[Len(history_values)]))
    ELSE PyNone

\* Mutant of best_yet: strict comparisons, a tie is not best.
best_yet_strict(direction, value, history_values) ==
    IF history_values = <<>> THEN PyBool(TRUE)
    ELSE IF direction = "max" THEN PyBool(FloatGt(value, nanmax(history_values)))
    ELSE IF direction = "min" THEN PyBool(FloatLt(value, nanmin(history_values)))
    ELSE PyNone

\* Lines 69-80: whether value is the best yet seen, given the values recorded
\* before it; None when the direction is neither 'max' nor 'min'.
best_yet(direction, value, history_values) ==
    IF history_values = <<>> THEN PyBool(TRUE)
    ELSE IF direction = "max" THEN PyBool(FloatGe(value, nanmax(history_values)))
    ELSE IF direction = "min" THEN PyBool(FloatLe(value, nanmin(history_values)))
    ELSE PyNone

\* Mutant of update: the value is coerced after the auto-registration.
update_registering_first(h, cat, tr, name, value, t) ==
    LET r == IF ~exists(h, tr, name) THEN register(h, cat, tr, name, "None")
             ELSE Return(h, PyNone)
        f == float(value)
    IN IF r.exc # "" THEN r
       ELSE IF f.exc # "" THEN Raise(r.h, f.exc)
       ELSE LET ref == MetricsHistory(r.h, tr)[name]
                history_values == Values(r.h.obsLists[ref])
            IN Return([r.h EXCEPT !.obsLists[ref] = Append(@, MetricObservation(f.val, t))],
                      best_yet(Directions(r.h, tr)[name], f.val, history_values))

\* Lines 61-80.
update(h, cat, tr, name, value, t) ==
    LET f == float(value)
    IN IF f.exc # "" THEN Raise(h, f.exc)
       ELSE LET r == IF ~exists(h, tr, name) THEN register(h, cat, tr, name, "None")
                     ELSE Return(h, PyNone)
            IN IF r.exc # "" THEN r
               ELSE LET g == get_history(r.h, tr, name)
                    IN IF g.exc # "" THEN g
                       ELSE LET history == r.h.obsLists[g.val.ref]
                            IN IF ~HasValues(history) THEN Raise(r.h, "AttributeError")
                               ELSE LET history_values == Values(history)
                                        h2 == [r.h EXCEPT !.obsLists[g.val.ref] =
                                                   Append(@, MetricObservation(f.val, t))]
                                    IN Return(h2, best_yet(Directions(h2, tr)[name], f.val,
                                                           history_values))

\* Lines 87-91: series is stored as it is, by reference.
set_history(h, cat, tr, name, series) ==
    IF series.kind # "list" THEN Raise(h, "InvalidHistory")
    ELSE LET r == IF ~exists(h, tr, name) THEN register(h, cat, tr, name, "None")
                  ELSE Return(h, PyNone)
         IN IF r.exc # "" THEN r
            ELSE Return([r.h EXCEPT !.histDicts[r.h.trackers[tr].metrics_history] =
                                        DictSet(@, name, series.ref)],
                        PyNone)

\* Mutant of min: the first value is returned.
min_first(values) == values[1]

\* The builtins min and max: the first value is kept until a later one
\* compares smaller (larger).
RECURSIVE min(_)
min(values) ==
    IF Len(values) = 1 THEN values[1]
    ELSE LET m == min(SubSeq(values, 1, Len(values) - 1))
             x == values[Len(values)]
         IN IF FloatLt(x, m) THEN x ELSE m
RECURSIVE max(_)
max(values) ==
    IF Len(values) = 1 THEN values[1]
    ELSE LET m == max(SubSeq(values, 1, Len(values) - 1))
             x == values[Len(values)]
         IN IF FloatGt(x, m) THEN x ELSE m

\* Mutants of argmin and argmax: the last index of the extreme value.
RECURSIVE argmin_last(_)
argmin_last(values) ==
    IF Len(values) = 1 THEN 1
    ELSE LET i == argmin_last(SubSeq(values, 1, Len(values) - 1))
             x == values[Len(values)]
         IN IF ~values[i].nan /\ (x.nan \/ x.num <= values[i].num)
            THEN Len(values) ELSE i

\* np.argmin / np.argmax: the first index of the extreme value; a NaN counts
\* as the extreme, so the first NaN wins.
RECURSIVE argmin(_)
argmin(values) ==
    IF Len(values) = 1 THEN 1
    ELSE LET i == argmin(SubSeq(values, 1, Len(values) - 1))
             x == values[Len(values)]
         IN IF ~values[i].nan /\ (x.nan \/ x.num < values[i].num)
            THEN Len(values) ELSE i
RECURSIVE argmax(_)
argmax(values) ==
    IF Len(values) = 1 THEN 1
    ELSE LET i == argmax(SubSeq(values, 1, Len(values) - 1))
             x == values[Len(values)]
         IN IF ~values[i].nan /\ (x.nan \/ x.num > values[i].num)
            THEN Len(values) ELSE i

\* Lines 93-102.
get_best_value(h, tr, name) ==
    LET g == get_history(h, tr, name)
    IN IF g.exc # "" THEN g
       ELSE LET history == h.obsLists[g.val.ref]
            IN IF Len(history) = 0 THEN Return(h, PyNone)
               ELSE IF ~HasValues(history) THEN Raise(h, "AttributeError")
               ELSE IF name \notin DOMAIN Directions(h, tr) THEN Raise(h, "KeyError")
               ELSE IF Directions(h, tr)[name] = "min"
               THEN Return(h, min(Values(history)))
               ELSE Return(h, max(Values(history)))

\* Lines 104-115.
get_best_t(h, tr, name) ==
    LET g == get_history(h, tr, name)
    IN IF g.exc # "" THEN g
       ELSE LET history == h.obsLists[g.val.ref]
            IN IF Len(history) = 0 THEN Return(h, PyNone)
               ELSE IF ~HasValues(history) THEN Raise(h, "AttributeError")
               ELSE IF name \notin DOMAIN Directions(h, tr) THEN Raise(h, "KeyError")
               ELSE LET t_index == IF Directions(h, tr)[name] = "min"
                                   THEN argmin(Values(history))
                                   ELSE argmax(Values(history))
                    IN Return(h, PyInt(history[t_index].t))

\* Mutant of get_last_value: the value of the observation with the greatest t.
get_last_value_by_t(h, tr, name) ==
    LET g == get_history(h, tr, name)
    IN IF g.exc # "" THEN g
       ELSE LET history == h.obsLists[g.val.ref]
                latest == CHOOSE i \in DOMAIN history :
                              \A j \in DOMAIN history : history[j].t <= history[i].t
            IN IF Len(history) = 0 THEN Return(h, PyNone)
               ELSE IF ~HasValues(history) THEN Raise(h, "AttributeError")
               ELSE Return(h, history[latest].value)

\* Lines 131-136.
get_last_value(h, tr, name) ==
    LET g == get_history(h, tr, name)
    IN IF g.exc # "" THEN g
       ELSE LET history == h.obsLists[g.val.ref]
            IN IF Len(history) = 0 THEN Return(h, PyNone)
               ELSE IF history[Len(history)].kind # "MetricObservation"
               THEN Raise(h, "AttributeError")
               ELSE Return(h, history[Len(history)].value)

\* The NaN-aware statistics of numpy. A mean, median or variance is the exact
\* fraction num/den; the standard deviation is the root of the variance.
Fraction(num, den) == [kind |-> "float", nan |-> FALSE, num |-> num, den |-> den]
RECURSIVE Sum(_)
Sum(nums) == IF nums = <<>> THEN 0 ELSE nums[1] + Sum(Tail(nums))
NotNaN(v) == ~v.nan
Nums(values) == LET kept == SelectSeq(values, NotNaN) IN [i \in DOMAIN kept |-> kept[i].num]
\* The k-th smallest of nums.
Sorted(nums, k) ==
    CHOOSE x \in Range(nums) :
        /\ Cardinality({i \in DOMAIN nums : nums[i] < x}) < k
        /\ Cardinality({i \in DOMAIN nums : nums[i] <= x}) >= k
nanmean(values) ==
    LET nums == Nums(values)
    IN IF nums = <<>> THEN PyNaN ELSE Fraction(Sum(nums), Len(nums))
nanmedian(values) ==
    LET nums == Nums(values)
        n == Len(nums)
    IN IF nums = <<>> THEN PyNaN
       ELSE Fraction(Sorted(nums, (n + 1) \div 2) + Sorted(nums, (n + 2) \div 2), 2)
nanvar(values) ==
    LET nums == Nums(values)
        n == Len(nums)
    IN IF nums = <<>> THEN PyNaN
       ELSE Fraction(n * Sum([i \in DOMAIN nums |-> nums[i] * nums[i]]) - Sum(nums) * Sum(nums),
                     n * n)
nanstd(values) ==
    IF Nums(values) = <<>> THEN PyNaN
    ELSE [kind |-> "float", nan |-> FALSE, sqrt |-> nanvar(values)]

\* Lines 117-129.
get_statistics(h, tr, name) ==
    LET g == get_history(h, tr, name)
    IN IF g.exc # "" THEN g
       ELSE LET history == h.obsLists[g.val.ref]
            IN IF ~HasValues(history) THEN Raise(h, "AttributeError")
               ELSE IF Len(history) = 0 THEN Return(h, PyDict(<<>>))
               ELSE LET history_values == Values(history)
                    IN Return(h, PyDict([min |-> nanmin(history_values),
                                         max |-> nanmax(history_values),
                                         mean |-> nanmean(history_values),
                                         median |-> nanmedian(history_values),
                                         var |-> nanvar(history_values),
                                         std |-> nanstd(history_values)]))

\* Lines 138-143: copy.copy of the names list, of the directions dict and of
\* the metrics_history dict; the copied dict holds the same list objects.
get_config(h, tr) ==
    LET T == h.trackers[tr]
        config == [names |-> Len(h.nameLists) + 1,
                   directions |-> Len(h.dirDicts) + 1,
                   metrics_history |-> Len(h.histDicts) + 1]
    IN Return([h EXCEPT !.nameLists = Append(@, h.nameLists[T.names]),
                        !.dirDicts = Append(@, h.dirDicts[T.directions]),
                        !.histDicts = Append(@, h.histDicts[T.metrics_history]),
                        !.configs = Append(@, config)],
              [kind |-> "config", ref |-> Len(h.configs) + 1])

\* The keys of a dict in some fixed order (the order only numbers the new
\* list objects of from_config).
RECURSIVE KeyOrder(_)
KeyOrder(keys) ==
    IF keys = {} THEN <<>>
    ELSE LET k == CHOOSE k \in keys : TRUE IN <<k>> \o KeyOrder(keys \ {k})

\* MetricObservation(*obs): obs unpacks when it has exactly two elements.
Unpacks(obs) == obs.kind \in {"MetricObservation", "pair"}

\* Lines 145-153: cls() builds an empty tracker; names and directions are
\* then the config's own objects, metrics_history is a new dict of new lists.
from_config(h, cat, cfg) ==
    LET made == __init__(h, cat, PyNone)
        instance == made.val.ref
        config == h.configs[cfg]
        data == h.histDicts[config.metrics_history]
        order == KeyOrder(DOMAIN data)
        base == Len(made.h.obsLists)
        converted == [i \in DOMAIN order |->
                         LET old == h.obsLists[data[order[i]]]
                         IN [j \in DOMAIN old |-> MetricObservation(old[j].value, old[j].t)]]
        newDict == [name \in DOMAIN data |->
                       base + (CHOOSE i \in DOMAIN order : order[i] = name)]
    IN IF \E name \in DOMAIN data :
              \E j \in DOMAIN h.obsLists[data[name]] : ~Unpacks(h.obsLists[data[name]][j])
       THEN Raise(made.h, "TypeError")
       ELSE Return([made.h EXCEPT !.obsLists = @ \o converted,
                                  !.histDicts = Append(@, newDict),
                                  !.trackers[instance] =
                                      [names |-> config.names,
                                       directions |-> config.directions,
                                       metrics_history |-> Len(made.h.histDicts) + 1]],
                   made.val)

(***************************************************************************)
(* The calls a client makes.                                               *)
(***************************************************************************)
NAMES == {LOSS, ACCURACY}
DirectionArgs == {"None", "min", "max", "up"}
\* The (value, t) arguments of update.
UpdateArgs ==
    {<<PyInt(0), 0>>, <<PyInt(0), 1>>, <<PyInt(1), 0>>, <<PyInt(1), 1>>,
     <<PyStr(<<"n", "a", "n">>), 0>>, <<PyStr(<<"a", "b", "c">>), 0>>}

AccuracyMetric == MetricInstance("Accuracy", "", ACCURACY)
LossMetric == MetricInstance("MeanMetricWrapper", "mean_squared_error", LOSS)
PyList(items) == [kind |-> "list", items |-> items]
MetricsArgs ==
    {PyNone,
     PyList(<<AccuracyMetric, LossMetric>>),
     PyList(<<LossMetric, MetricFunction("accuracy")>>)}

\* Lists a caller builds and hands to set_history.
SeriesLiterals ==
    {<<>>,
     <<MetricObservation(PyFloat(1), 1), MetricObservation(PyFloat(0), 1),
       MetricObservation(PyFloat(0), 0)>>,
     <<PlainPair(PyFloat(0), 0)>>,
     <<PyFloat(0)>>}

\* keras.metrics.get as the tracker may find it.
KerasCatalog == ACCURACY :> MetricFunction("accuracy")

EmptyHeap ==
    [nameLists |-> <<>>, dirDicts |-> <<>>, histDicts |-> <<>>,
     obsLists |-> <<>>, trackers |-> <<>>, configs |-> <<>>]

Install(h) ==
    /\ nameLists' = h.nameLists
    /\ dirDicts' = h.dirDicts
    /\ histDicts' = h.histDicts
    /\ obsLists' = h.obsLists
    /\ trackers' = h.trackers
    /\ configs' = h.configs

\* One call: its effect on the heap, its outcome, and the record of it.
Do(r, c) ==
    /\ budget > 0
    /\ budget' = budget - 1
    /\ Install(r.h)
    /\ ret' = [exc |-> r.exc, val |-> r.val]
    /\ call' = c
    /\ UNCHANGED <<catalog, callers>>

Trackers == 1..Len(trackers)

\* The state after tracker = MetricsTracker(metrics), with calls to come.
Constructed(metrics, calls) ==
    LET r == __init__(EmptyHeap, catalog, metrics)
    IN /\ r.exc = ""
       /\ nameLists = r.h.nameLists
       /\ dirDicts = r.h.dirDicts
       /\ histDicts = r.h.histDicts
       /\ obsLists = r.h.obsLists
       /\ trackers = r.h.trackers
       /\ configs = r.h.configs
       /\ ret = [exc |-> r.exc, val |-> r.val]
       /\ call = [op |-> "__init__", tr |-> 1, metrics |-> metrics]
       /\ budget = calls
       /\ callers = <<>>

\* tracker = MetricsTracker()
Init ==
    /\ catalog = KerasCatalog
    /\ Constructed(PyNone, MaxCalls)

\* tracker = MetricsTracker(metrics), for the metrics lists it accepts.
InitQuery ==
    /\ catalog = KerasCatalog
    /\ \E metrics \in MetricsArgs : Constructed(metrics, MaxQueryCalls)

Register(tr, name, direction) ==
    Do(register(Heap, catalog, tr, name, direction),
       [op |-> "register", tr |-> tr, name |-> name, direction |-> direction])

RegisterMetrics(tr, metrics) ==
    Do(register_metrics(Heap, catalog, tr, metrics),
       [op |-> "register_metrics", tr |-> tr, metrics |-> metrics])

Update(tr, name, value, t) ==
    Do(update(Heap, catalog, tr, name, value, t),
       [op |-> "update", tr |-> tr, name |-> name, value |-> value, t |-> t])

\* set_history with an object the caller already holds: a list the tracker
\* handed out, or something that is no list.
SetHistory(tr, name, series) ==
    Do(set_history(Heap, catalog, tr, name, series),
       [op |-> "set_history", tr |-> tr, name |-> name, series |-> series])

\* set_history with a list the caller has just built.
SetHistoryOfNewList(tr, name, items) ==
    LET h == [Heap EXCEPT !.obsLists = Append(@, items)]
        series == ListRef(Len(h.obsLists))
    IN Do(set_history(h, catalog, tr, name, series),
          [op |-> "set_history", tr |-> tr, name |-> name, series |-> series])

Exists(tr, name) ==
    Do(Return(Heap, PyBool(exists(Heap, tr, name))),
       [op |-> "exists", tr |-> tr, name |-> name])

GetHistory(tr, name) ==
    Do(get_history(Heap, tr, name), [op |-> "get_history", tr |-> tr, name |-> name])

GetBestValue(tr, name) ==
    Do(get_best_value(Heap, tr, name), [op |-> "get_best_value", tr |-> tr, name |-> name])

GetBestT(tr, name) ==
    Do(get_best_t(Heap, tr, name), [op |-> "get_best_t", tr |-> tr, name |-> name])

GetLastValue(tr, name) ==
    Do(get_last_value(Heap, tr, name), [op |-> "get_last_value", tr |-> tr, name |-> name])

GetStatistics(tr, name) ==
    Do(get_statistics(Heap, tr, name), [op |-> "get_statistics", tr |-> tr, name |-> name])

\* MetricsTracker.from_config(tracker.get_config())
RoundTrip(tr) ==
    LET c == get_config(Heap, tr)
    IN Do(from_config(c.h, catalog, c.val.ref), [op |-> "round_trip", tr |-> tr])

RegisterCall ==
    \E tr \in Trackers, name \in NAMES, direction \in DirectionArgs :
        Register(tr, name, direction)
RegisterMetricsCall ==
    \E tr \in Trackers, metrics \in MetricsArgs : RegisterMetrics(tr, metrics)
UpdateCall ==
    \E tr \in Trackers, name \in NAMES, args \in UpdateArgs :
        Update(tr, name, args[1], args[2])
SetHistoryCall ==
    \E tr \in Trackers, name \in NAMES,
       series \in {ListRef(i) : i \in 1..Len(obsLists)} \cup {PyTuple(<<>>)} :
        SetHistory(tr, name, series)
SetHistoryOfNewListCall ==
    \E tr \in Trackers, name \in NAMES, items \in SeriesLiterals :
        SetHistoryOfNewList(tr, name, items)
ExistsCall == \E tr \in Trackers, name \in NAMES : Exists(tr, name)
GetHistoryCall == \E tr \in Trackers, name \in NAMES : GetHistory(tr, name)
GetBestValueCall == \E tr \in Trackers, name \in NAMES : GetBestValue(tr, name)
GetBestTCall == \E tr \in Trackers, name \in NAMES : GetBestT(tr, name)
GetLastValueCall == \E tr \in Trackers, name \in NAMES : GetLastValue(tr, name)
GetStatisticsCall == \E tr \in Trackers, name \in NAMES : GetStatistics(tr, name)
RoundTripCall == \E tr \in Trackers : RoundTrip(tr)

\* The calls that change a tracker or build one.
Next ==
    \/ RegisterCall
    \/ RegisterMetricsCall
    \/ UpdateCall
    \/ SetHistoryCall
    \/ SetHistoryOfNewListCall
    \/ RoundTripCall

Spec == Init /\ [][Next]_vars

\* The queries, among the calls that register a metric and record values.
NextQuery ==
    \/ RegisterCall
    \/ UpdateCall
    \/ SetHistoryOfNewListCall
    \/ ExistsCall
    \/ GetHistoryCall
    \/ GetBestValueCall
    \/ GetBestTCall
    \/ GetLastValueCall
    \/ GetStatisticsCall

SpecQuery == InitQuery /\ [][NextQuery]_vars

(***************************************************************************)
(* infer_metric_direction on names, under the contents keras.metrics.get   *)
(* may have, and the trackers that register a metric under such a name.    *)
(***************************************************************************)
\* Names n, and the names 'val_' + n.
PlainNames == {LOSS, ACCURACY, MSE, VAL, VAL \o LOSS, VAL \o ACCURACY}
InferNames == PlainNames \cup {VAL \o n : n \in PlainNames} \cup {<<>>}

\* What keras.metrics.get may return: functions and Metric instances, of the
\* names of _MAX_METRICS and _MAX_METRIC_FNS and of others.
Descriptors ==
    {MetricFunction("accuracy"),
     MetricFunction("mean_squared_error"),
     AccuracyMetric,
     LossMetric,
     MetricInstance("MeanMetricWrapper", "binary_accuracy", ACCURACY),
     MetricInstance("MeanSquaredError", "", MSE)}

\* keras.metrics.get resolves the names of its module and whatever name was
\* registered as a custom object: no name, one name, or all of CatalogKeys.
CatalogKeys == {LOSS, ACCURACY, VAL}
FullCatalog ==
    (LOSS :> AccuracyMetric) @@ (ACCURACY :> LossMetric) @@ (VAL :> MetricFunction("accuracy"))
Catalogs ==
    {c \in UNION {[D -> Descriptors] : D \in SUBSET CatalogKeys} : Cardinality(DOMAIN c) <= 1}
        \cup {FullCatalog}

\* The str a call returns for a direction.
PyDirection(direction) == [kind |-> "str", str |-> direction]

InitInfer ==
    /\ catalog \in Catalogs
    /\ Constructed(PyNone, MaxInferCalls)

Infer(metric) ==
    Do(Return(Heap, PyDirection(infer_metric_direction(catalog, metric))),
       [op |-> "infer_metric_direction", metric |-> metric])

InferCall ==
    /\ budget > 0
    /\ \E name \in InferNames : Infer(PyStr(name))
UpdateNamedCall ==
    \E tr \in Trackers, name \in InferNames : Update(tr, name, PyInt(0), 0)
SetHistoryNamedCall ==
    \E tr \in Trackers, name \in InferNames : SetHistoryOfNewList(tr, name, <<>>)

NextInfer ==
    \/ InferCall
    \/ UpdateNamedCall
    \/ SetHistoryNamedCall

SpecInfer == InitInfer /\ [][NextInfer]_vars

(***************************************************************************)
(* get_config and from_config as calls of their own: a config is kept and  *)
(* may be handed to from_config more than once.                            *)
(***************************************************************************)
Configs == 1..Len(configs)

InitConfig ==
    /\ catalog = KerasCatalog
    /\ Constructed(PyNone, MaxConfigCalls)

GetConfig(tr) ==
    Do(get_config(Heap, tr), [op |-> "get_config", tr |-> tr])

FromConfig(cfg) ==
    Do(from_config(Heap, catalog, cfg), [op |-> "from_config", config |-> cfg])

GetConfigCall == \E tr \in Trackers : GetConfig(tr)
FromConfigCall == \E cfg \in Configs : FromConfig(cfg)

NextConfig ==
    \/ RegisterCall
    \/ UpdateCall
    \/ SetHistoryOfNewListCall
    \/ GetConfigCall
    \/ FromConfigCall

SpecConfig == InitConfig /\ [][NextConfig]_vars

(***************************************************************************)
(* Two threads call update(name, value, t) on one tracker, for one name    *)
(* that is not registered, with nothing to serialize them: a thread may be *)
(* switched out between any two of the steps below, each of which reads or *)
(* writes the tracker once.  pc is the line the thread executes next.      *)
(***************************************************************************)
Callers == DOMAIN callers

Caller(name, value, t) ==
    [pc |-> "idle", name |-> name, value |-> value, t |-> t,
     f |-> PyNone, direction |-> "", history |-> 0, history_values |-> <<>>,
     exc |-> "", val |-> PyNone,
     rank |-> 0, overlap |-> FALSE]

\* tracker = MetricsTracker(), and the two calls to come; caller i passes
\* t = i.
InitRace ==
    /\ catalog = KerasCatalog
    /\ LET r == __init__(EmptyHeap, catalog, PyNone)
       IN /\ nameLists = r.h.nameLists
          /\ dirDicts = r.h.dirDicts
          /\ histDicts = r.h.histDicts
          /\ obsLists = r.h.obsLists
          /\ trackers = r.h.trackers
          /\ configs = r.h.configs
          /\ ret = [exc |-> r.exc, val |-> r.val]
          /\ call = [op |-> "__init__", tr |-> 1, metrics |-> PyNone]
    /\ budget = 0
    /\ \E name \in NAMES, values \in [{1, 2} -> {PyInt(0), PyInt(1)}] :
           callers = [i \in {1, 2} |-> Caller(name, values[i], i)]

\* One step of caller i: the heap after it and the caller after it.
Step(i, h, c) ==
    /\ Install(h)
    /\ callers' = [callers EXCEPT ![i] = c]
    /\ UNCHANGED <<catalog, call, ret, budget>>

Failed(c, exc) == [c EXCEPT !.pc = "done", !.exc = exc]

\* The call begins; line 62.
Coerce(i) ==
    LET c == callers[i]
        f == float(c.value)
        others == {callers[j].pc : j \in Callers \ {i}}
        begun == [c EXCEPT !.rank = 1 + Cardinality({j \in Callers : callers[j].pc # "idle"}),
                           !.overlap = others \ {"idle", "done"} # {}]
    IN /\ c.pc = "idle"
       /\ Step(i, Heap, IF f.exc # "" THEN Failed(begun, f.exc)
                         ELSE [begun EXCEPT !.pc = "63", !.f = f.val])

\* Line 63: if not self.exists(name).
CheckExists(i) ==
    LET c == callers[i]
    IN /\ c.pc = "63"
       /\ Step(i, Heap, [c EXCEPT !.pc = IF exists(Heap, 1, c.name) THEN "65" ELSE "49"])

\* Line 64 enters register: lines 49-56.
RegisterCheck(i) ==
    LET c == callers[i]
        direction == infer_metric_direction(catalog, PyStr(c.name))
    IN /\ c.pc = "49"
       /\ Step(i, Heap,
               IF direction \notin {"min", "max"} THEN Failed(c, "InvalidDirection")
               ELSE IF c.name \in Range(Names(Heap, 1)) THEN Failed(c, "DuplicateMetric")
               ELSE [c EXCEPT !.pc = "57", !.direction = direction])

\* Line 57: self.names.append(name).
StoreName(i) ==
    LET c == callers[i]
    IN /\ c.pc = "57"
       /\ Step(i, [Heap EXCEPT !.nameLists[Heap.trackers[1].names] = Append(@, c.name)],
               [c EXCEPT !.pc = "58"])

\* Line 58: self.directions[name] = direction.
StoreDirection(i) ==
    LET c == callers[i]
    IN /\ c.pc = "58"
       /\ Step(i, [Heap EXCEPT !.dirDicts[Heap.trackers[1].directions] =
                                   DictSet(@, c.name, c.direction)],
               [c EXCEPT !.pc = "59"])

\* Line 59: self.metrics_history[name] = [], a new list object.
StoreHistory(i) ==
    LET c == callers[i]
    IN /\ c.pc = "59"
       /\ Step(i, [Heap EXCEPT !.obsLists = Append(@, <<>>),
                               !.histDicts[Heap.trackers[1].metrics_history] =
                                   DictSet(@, c.name, Len(Heap.obsLists) + 1)],
               [c EXCEPT !.pc = "65"])

\* Line 65: history = self.get_history(name).
GetHistoryOfCaller(i) ==
    LET c == callers[i]
        g == get_history(Heap, 1, c.name)
    IN /\ c.pc = "65"
       /\ Step(i, Heap, IF g.exc # "" THEN Failed(c, g.exc)
                         ELSE [c EXCEPT !.pc = "66", !.history = g.val.ref])

\* Line 66: history_values = [obs.value for obs in history].
ReadValues(i) ==
    LET c == callers[i]
    IN /\ c.pc = "66"
       /\ Step(i, Heap, [c EXCEPT !.pc = "67",
                                  !.history_values = Values(Heap.obsLists[c.history])])

\* Line 67: history.append(MetricObservation(value, t)).
AppendObservation(i) ==
    LET c == callers[i]
    IN /\ c.pc = "67"
       /\ Step(i, [Heap EXCEPT !.obsLists[c.history] = Append(@, MetricObservation(c.f, c.t))],
               [c EXCEPT !.pc = "69"])

\* Lines 69-80: the comparison, and the return.
Compare(i) ==
    LET c == callers[i]
    IN /\ c.pc = "69"
       /\ Step(i, Heap,
               IF c.name \notin DOMAIN Directions(Heap, 1) THEN Failed(c, "KeyError")
               ELSE [c EXCEPT !.pc = "done",
                              !.val = best_yet(Directions(Heap, 1)[c.name], c.f,
                                               c.history_values)])

CoerceStep == \E i \in Callers : Coerce(i)
CheckExistsStep == \E i \in Callers : CheckExists(i)
RegisterCheckStep == \E i \in Callers : RegisterCheck(i)
StoreNameStep == \E i \in Callers : StoreName(i)
StoreDirectionStep == \E i \in Callers : StoreDirection(i)
StoreHistoryStep == \E i \in Callers : StoreHistory(i)
GetHistoryStep == \E i \in Callers : GetHistoryOfCaller(i)
ReadValuesStep == \E i \in Callers : ReadValues(i)
AppendObservationStep == \E i \in Callers : AppendObservation(i)
CompareStep == \E i \in Callers : Compare(i)

NextRace ==
    \/ CoerceStep
    \/ CheckExistsStep
    \/ RegisterCheckStep
    \/ StoreNameStep
    \/ StoreDirectionStep
    \/ StoreHistoryStep
    \/ GetHistoryStep
    \/ ReadValuesStep
    \/ AppendObservationStep
    \/ CompareStep

SpecRace == InitRace /\ [][NextRace]_vars

(***************************************************************************)
(* What a tracker shows.                                                   *)
(***************************************************************************)
Registered(h, tr, name) == name \in Range(Names(h, tr))
History(h, tr, name) == h.obsLists[MetricsHistory(h, tr)[name]]
\* The history a call finds: empty for a name that the call registers.
PriorHistory(h, tr, name) == IF Registered(h, tr, name) THEN History(h, tr, name) ELSE <<>>
NoNaN(history) == HasValues(history) /\ \A i \in DOMAIN history : ~history[i].value.nan
IsPrefix(s, t) == Len(s) <= Len(t) /\ \A i \in DOMAIN s : s[i] = t[i]
\* A step of the client is a call of the named method.
Called(op) == budget' = budget - 1 /\ call'.op = op

(***************************************************************************)
(* C1. In every reachable state, for every tracker (built by the           *)
(* constructor or by from_config(get_config())), names holds no name       *)
(* twice, and the set of names, the keys of directions and the keys of     *)
(* metrics_history are the same set.                                       *)
(***************************************************************************)
C1_KeySetsInSync ==
    \A tr \in Trackers :
        /\ \A i, j \in DOMAIN Names(Heap, tr) :
               i # j => Names(Heap, tr)[i] # Names(Heap, tr)[j]
        /\ Range(Names(Heap, tr)) = DOMAIN Directions(Heap, tr)
        /\ Range(Names(Heap, tr)) = DOMAIN MetricsHistory(Heap, tr)

\* A failing register on a restored tracker that holds both names.
C1_Witness ==
    /\ call.op = "register"
    /\ call.tr = 2
    /\ ret.exc = "DuplicateMetric"
    /\ Len(Names(Heap, 2)) = 2

(***************************************************************************)
(* C2. An update that finds only non-NaN values recorded for the name and  *)
(* is given a non-NaN value returns true exactly when nothing was recorded *)
(* before or the value is >= every earlier value (a 'max' metric), <=      *)
(* every earlier value (a 'min' metric); a value equal to the earlier best *)
(* gives true, and t plays no part.                                        *)
(***************************************************************************)
C2_UpdateReturnsBestYet ==
    [][(/\ Called("update")
        /\ ret'.exc = ""
        /\ NoNaN(PriorHistory(Heap, call'.tr, call'.name))
        /\ ~float(call'.value).val.nan)
       => LET prior == Values(PriorHistory(Heap, call'.tr, call'.name))
              value == float(call'.value).val.num
              direction == Directions(Heap', call'.tr)[call'.name]
          IN ret'.val = PyBool(\/ prior = <<>>
                               \/ /\ direction = "max"
                                  /\ \A i \in DOMAIN prior : value >= prior[i].num
                               \/ /\ direction = "min"
                                  /\ \A i \in DOMAIN prior : value <= prior[i].num)]_vars

\* The third update of a 'max' metric repeats the best value and returns true.
C2_Witness ==
    /\ call.op = "update"
    /\ ret = [exc |-> "", val |-> PyBool(TRUE)]
    /\ Registered(Heap, call.tr, call.name)
    /\ Directions(Heap, call.tr)[call.name] = "max"
    /\ Values(History(Heap, call.tr, call.name)) = <<PyFloat(0), PyFloat(1), PyFloat(1)>>

(***************************************************************************)
(* C3 as stated. A successful update(name, value, t) makes the history of  *)
(* name its earlier history followed by (value, t) and leaves the history  *)
(* and the direction of every other metric of the tracker as they were;    *)
(* and over every register, register_metrics and update each metric's      *)
(* earlier history is a prefix of its later history.                       *)
(***************************************************************************)
C3_UpdateOnlyAppendsToItsMetric ==
    [][/\ (Called("update") /\ ret'.exc = "")
            => /\ History(Heap', call'.tr, call'.name) =
                      Append(PriorHistory(Heap, call'.tr, call'.name),
                             MetricObservation(float(call'.value).val, call'.t))
               /\ \A other \in Range(Names(Heap, call'.tr)) \ {call'.name} :
                      /\ History(Heap', call'.tr, other) = History(Heap, call'.tr, other)
                      /\ Directions(Heap', call'.tr)[other] = Directions(Heap, call'.tr)[other]
       /\ (Called("update") \/ Called("register") \/ Called("register_metrics"))
            => \A tr \in Trackers : \A name \in Range(Names(Heap, tr)) :
                   IsPrefix(History(Heap, tr, name), History(Heap', tr, name))]_vars

(***************************************************************************)
(* C4 as stated. from_config(get_config()) succeeds and yields a tracker   *)
(* with the same names in the same order, the same directions and, for     *)
(* every name, the same sequence of observations; exists, get_history,     *)
(* get_best_value, get_best_t and get_last_value answer on it as on the    *)
(* original.                                                               *)
(***************************************************************************)
SameAnswer(a, b) == a.exc = b.exc /\ a.val = b.val

C4_RoundTripRestoresTheTracker ==
    [][Called("round_trip")
       => /\ ret'.exc = ""
          /\ LET a == call'.tr
                 b == ret'.val.ref
             IN /\ Names(Heap', b) = Names(Heap', a)
                /\ Directions(Heap', b) = Directions(Heap', a)
                /\ DOMAIN MetricsHistory(Heap', b) = DOMAIN MetricsHistory(Heap', a)
                /\ \A name \in Range(Names(Heap', a)) :
                       History(Heap', b, name) = History(Heap', a, name)
                /\ \A name \in NAMES :
                       /\ exists(Heap', b, name) = exists(Heap', a, name)
                       /\ get_history(Heap', b, name).exc = get_history(Heap', a, name).exc
                       /\ SameAnswer(get_best_value(Heap', b, name),
                                     get_best_value(Heap', a, name))
                       /\ SameAnswer(get_best_t(Heap', b, name), get_best_t(Heap', a, name))
                       /\ SameAnswer(get_last_value(Heap', b, name),
                                     get_last_value(Heap', a, name))]_vars

(***************************************************************************)
(* C3, C4: what holds of the code. The update leaves alone every other     *)
(* metric whose history is another list object; the round trip restores a  *)
(* tracker whose histories hold MetricObservations only.                   *)
(***************************************************************************)
C3_HoldsWithoutSharedLists ==
    [][/\ (Called("update") /\ ret'.exc = "")
            => /\ History(Heap', call'.tr, call'.name) =
                      Append(PriorHistory(Heap, call'.tr, call'.name),
                             MetricObservation(float(call'.value).val, call'.t))
               /\ \A other \in Range(Names(Heap, call'.tr)) \ {call'.name} :
                      /\ MetricsHistory(Heap, call'.tr)[other] #
                             MetricsHistory(Heap', call'.tr)[call'.name]
                           => History(Heap', call'.tr, other) = History(Heap, call'.tr, other)
                      /\ Directions(Heap', call'.tr)[other] = Directions(Heap, call'.tr)[other]
       /\ (Called("update") \/ Called("register") \/ Called("register_metrics"))
            => \A tr \in Trackers : \A name \in Range(Names(Heap, tr)) :
                   IsPrefix(History(Heap, tr, name), History(Heap', tr, name))]_vars

C4_HoldsForObservations ==
    [][(/\ Called("round_trip")
        /\ \A name \in Range(Names(Heap, call'.tr)) : HasValues(History(Heap, call'.tr, name)))
       => /\ ret'.exc = ""
          /\ LET a == call'.tr
                 b == ret'.val.ref
             IN /\ Names(Heap', b) = Names(Heap', a)
                /\ Directions(Heap', b) = Directions(Heap', a)
                /\ \A name \in Range(Names(Heap', a)) :
                       History(Heap', b, name) = History(Heap', a, name)]_vars

(***************************************************************************)
(* C5. For a registered metric whose history holds non-NaN values only,    *)
(* get_best_value gives None for the empty history and otherwise the least *)
(* recorded value of a 'min' metric, the greatest of a 'max' metric,       *)
(* wherever it stands in the history and however the history came about;   *)
(* a get_best_value call returns just that.                                *)
(***************************************************************************)
Least(nums) == CHOOSE x \in nums : \A y \in nums : x <= y
Greatest(nums) == CHOOSE x \in nums : \A y \in nums : x >= y
RecordedNums(h, tr, name) == {History(h, tr, name)[i].value.num : i \in DOMAIN History(h, tr, name)}
Extreme(h, tr, name) ==
    IF Directions(h, tr)[name] = "min" THEN Least(RecordedNums(h, tr, name))
    ELSE Greatest(RecordedNums(h, tr, name))
BestValueExpected(h, tr, name) ==
    IF History(h, tr, name) = <<>> THEN [exc |-> "", val |-> PyNone]
    ELSE [exc |-> "", val |-> PyFloat(Extreme(h, tr, name))]

C5_BestValueIsTheExtreme ==
    /\ \A tr \in Trackers : \A name \in Range(Names(Heap, tr)) :
           NoNaN(History(Heap, tr, name))
             => LET r == get_best_value(Heap, tr, name)
                IN [exc |-> r.exc, val |-> r.val] = BestValueExpected(Heap, tr, name)
    /\ (/\ call.op = "get_best_value"
        /\ Registered(Heap, call.tr, call.name)
        /\ NoNaN(History(Heap, call.tr, call.name)))
         => ret = BestValueExpected(Heap, call.tr, call.name)

\* get_best_value of a 'min' metric whose history was installed by
\* set_history with its least value not in first place.
C5_Witness ==
    /\ call.op = "get_best_value"
    /\ ret = [exc |-> "", val |-> PyFloat(0)]
    /\ Directions(Heap, call.tr)[call.name] = "min"
    /\ Values(History(Heap, call.tr, call.name)) = <<PyFloat(1), PyFloat(0), PyFloat(0)>>

(***************************************************************************)
(* C6. For a registered metric with a non-empty history of non-NaN values, *)
(* get_best_t gives the t of the first observation in the history whose    *)
(* value is get_best_value's, also when a later observation with that      *)
(* value has a smaller t; for an empty history it gives None.              *)
(***************************************************************************)
BestTExpected(h, tr, name) ==
    LET history == History(h, tr, name)
        best == get_best_value(h, tr, name).val
        first == CHOOSE i \in DOMAIN history :
                     /\ history[i].value = best
                     /\ \A j \in 1..(i - 1) : history[j].value # best
    IN IF history = <<>> THEN [exc |-> "", val |-> PyNone]
       ELSE [exc |-> "", val |-> PyInt(history[first].t)]

C6_BestTIsTheEarliest ==
    /\ \A tr \in Trackers : \A name \in Range(Names(Heap, tr)) :
           NoNaN(History(Heap, tr, name))
             => LET r == get_best_t(Heap, tr, name)
                IN [exc |-> r.exc, val |-> r.val] = BestTExpected(Heap, tr, name)
    /\ (/\ call.op = "get_best_t"
        /\ Registered(Heap, call.tr, call.name)
        /\ NoNaN(History(Heap, call.tr, call.name)))
         => ret = BestTExpected(Heap, call.tr, call.name)

\* get_best_t of a metric whose best value was recorded twice, the second
\* time with the smaller t.
C6_Witness ==
    /\ call.op = "get_best_t"
    /\ ret = [exc |-> "", val |-> PyInt(1)]
    /\ LET history == History(Heap, call.tr, call.name)
       IN \E i, j \in DOMAIN history :
              /\ i < j
              /\ history[i].value = get_best_value(Heap, call.tr, call.name).val
              /\ history[j].value = history[i].value
              /\ history[i].t = 1
              /\ history[j].t = 0

(***************************************************************************)
(* C9. get_history, get_best_value, get_best_t, get_last_value and         *)
(* get_statistics of a name that is not registered fail with UnknownMetric *)
(* and leave the heap as it was: the name is not registered by them.       *)
(***************************************************************************)
Queries == {"get_history", "get_best_value", "get_best_t", "get_last_value", "get_statistics"}

C9_QueriesOfUnknownNames ==
    [][(/\ budget' = budget - 1
        /\ call'.op \in Queries
        /\ ~Registered(Heap, call'.tr, call'.name))
       => /\ ret'.exc = "UnknownMetric"
          /\ Heap' = Heap
          /\ ~Registered(Heap', call'.tr, call'.name)]_vars

\* A statistics query of an unknown name on a tracker that knows another.
C9_Witness ==
    /\ call.op = "get_statistics"
    /\ ret.exc = "UnknownMetric"
    /\ Len(Names(Heap, call.tr)) = 1
    /\ ~Registered(Heap, call.tr, call.name)

(***************************************************************************)
(* C7 as amended. register fails with InvalidDirection when the resolved   *)
(* direction is neither 'min' nor 'max' (also for a registered name), and  *)
(* with DuplicateMetric when the resolved direction is valid and the name  *)
(* is registered, whichever valid direction is passed; either failure      *)
(* leaves every object of the heap as it was.                              *)
(***************************************************************************)
ResolvedDirection(name, direction) ==
    IF direction = "None" THEN infer_metric_direction(catalog, PyStr(name)) ELSE direction

C7_RegisterFailures ==
    [][Called("register")
       => LET dir == ResolvedDirection(call'.name, call'.direction)
          IN /\ dir \notin {"min", "max"}
                  => ret'.exc = "InvalidDirection" /\ Heap' = Heap
             /\ (dir \in {"min", "max"} /\ Registered(Heap, call'.tr, call'.name))
                  => ret'.exc = "DuplicateMetric" /\ Heap' = Heap]_vars

\* A registered name with observations is registered again with the
\* direction it has.
C7_Witness ==
    /\ call.op = "register"
    /\ ret.exc = "DuplicateMetric"
    /\ call.direction = Directions(Heap, call.tr)[call.name]
    /\ Len(History(Heap, call.tr, call.name)) > 0

(***************************************************************************)
(* C7 as stated: register fails with DuplicateMetric whenever the name is  *)
(* registered, whatever direction is passed.                               *)
(***************************************************************************)
C7_AsStated ==
    [][Called("register")
       => LET dir == ResolvedDirection(call'.name, call'.direction)
          IN /\ dir \notin {"min", "max"}
                  => ret'.exc = "InvalidDirection" /\ Heap' = Heap
             /\ Registered(Heap, call'.tr, call'.name)
                  => ret'.exc = "DuplicateMetric" /\ Heap' = Heap]_vars

(***************************************************************************)
(* C8. Registration is permanent: over every call, each tracker's names    *)
(* list is a prefix of what it is afterwards, and every registered name    *)
(* keeps its direction.                                                    *)
(***************************************************************************)
C8_RegistrationIsPermanent ==
    [][\A tr \in Trackers :
           /\ IsPrefix(Names(Heap, tr), Names(Heap', tr))
           /\ \A name \in Range(Names(Heap, tr)) :
                  /\ name \in DOMAIN Directions(Heap', tr)
                  /\ Directions(Heap', tr)[name] = Directions(Heap, tr)[name]]_vars

\* A second name has been registered after the first, and a later register
\* of a registered name asked for the other direction.
C8_Witness ==
    /\ call.op = "register"
    /\ ret.exc = "DuplicateMetric"
    /\ Len(Names(Heap, call.tr)) = 2
    /\ call.direction \in {"min", "max"}
    /\ call.direction # Directions(Heap, call.tr)[call.name]

(***************************************************************************)
(* C10. update with a value that float() rejects fails with InvalidValue   *)
(* and leaves the heap as it was: nothing is appended and an unregistered  *)
(* name stays unregistered.                                                *)
(***************************************************************************)
C10_InvalidValueChangesNothing ==
    [][(Called("update") /\ float(call'.value).exc # "")
       => ret'.exc = "InvalidValue" /\ Heap' = Heap]_vars

\* An update of an unregistered name was refused for its value.
C10_Witness ==
    /\ call.op = "update"
    /\ ret.exc = "InvalidValue"
    /\ ~Registered(Heap, call.tr, call.name)

(***************************************************************************)
(* What a tracker holds, whatever the numbers of its objects: its names,   *)
(* its directions and the elements of each history.                        *)
(***************************************************************************)
TrackerState(h, tr) ==
    [names |-> Names(h, tr),
     directions |-> Directions(h, tr),
     histories |-> [name \in DOMAIN MetricsHistory(h, tr) |->
                       h.obsLists[MetricsHistory(h, tr)[name]]]]

\* The histories of the names a tracker held before a call, but for one.
OtherHistories(h, tr, names, name) ==
    [other \in names \ {name} |-> h.obsLists[MetricsHistory(h, tr)[other]]]

(***************************************************************************)
(* C11 as stated. set_history(name, series) fails with InvalidHistory      *)
(* whenever series is not a list of MetricObservations (also when it is a  *)
(* list with an element that is none), and then leaves every tracker as it *)
(* was; otherwise it succeeds, makes series the history of name, leaves    *)
(* every other history alone and registers an unknown name with the        *)
(* direction inferred from the name.                                       *)
(***************************************************************************)
C11_SetHistoryValidates ==
    [][Called("set_history")
       => LET tr == call'.tr
              name == call'.name
              series == call'.series
              valid == series.kind = "list" /\ HasValues(Heap'.obsLists[series.ref])
              before == Range(Names(Heap, tr))
          IN /\ ~valid
                  => /\ ret'.exc = "InvalidHistory"
                     /\ \A other \in Trackers : TrackerState(Heap', other) = TrackerState(Heap, other)
             /\ valid
                  => /\ ret'.exc = ""
                     /\ History(Heap', tr, name) = Heap'.obsLists[series.ref]
                     /\ OtherHistories(Heap', tr, before, name) =
                            OtherHistories(Heap, tr, before, name)
                     /\ Names(Heap', tr) =
                            IF name \in before THEN Names(Heap, tr)
                            ELSE Append(Names(Heap, tr), name)
                     /\ name \notin before
                          => Directions(Heap', tr)[name] =
                                 infer_metric_direction(catalog, PyStr(name))]_vars

(***************************************************************************)
(* C11: what holds of the code. Only the type of series is looked at: a    *)
(* series that is no list is refused and every tracker stays as it was; a  *)
(* list, whatever it holds, becomes the history of name.                   *)
(***************************************************************************)
C11_HoldsForTheTypeOfSeries ==
    [][Called("set_history")
       => LET tr == call'.tr
              name == call'.name
              series == call'.series
              before == Range(Names(Heap, tr))
          IN /\ series.kind # "list"
                  => /\ ret'.exc = "InvalidHistory"
                     /\ \A other \in Trackers : TrackerState(Heap', other) = TrackerState(Heap, other)
             /\ series.kind = "list"
                  => /\ ret'.exc = ""
                     /\ History(Heap', tr, name) = Heap'.obsLists[series.ref]
                     /\ OtherHistories(Heap', tr, before, name) =
                            OtherHistories(Heap, tr, before, name)
                     /\ Names(Heap', tr) =
                            IF name \in before THEN Names(Heap, tr)
                            ELSE Append(Names(Heap, tr), name)
                     /\ name \notin before
                          => Directions(Heap', tr)[name] =
                                 infer_metric_direction(catalog, PyStr(name))]_vars

(***************************************************************************)
(* C12 as stated. An update with a non-NaN value leaves the NaN values     *)
(* recorded before it out of the comparison: it returns true exactly when  *)
(* no non-NaN value was recorded before (nothing at all, or NaN only) or   *)
(* the value is >= ('max') or <= ('min') every earlier non-NaN value.      *)
(***************************************************************************)
C12_UpdateIgnoresNaN ==
    [][(/\ Called("update")
        /\ ret'.exc = ""
        /\ ~float(call'.value).val.nan)
       => LET kept == Nums(Values(PriorHistory(Heap, call'.tr, call'.name)))
              value == float(call'.value).val.num
              direction == Directions(Heap', call'.tr)[call'.name]
          IN ret'.val = PyBool(\/ kept = <<>>
                               \/ /\ direction = "max"
                                  /\ \A i \in DOMAIN kept : value >= kept[i]
                               \/ /\ direction = "min"
                                  /\ \A i \in DOMAIN kept : value <= kept[i])]_vars

(***************************************************************************)
(* C12: what holds of the code. NaN values are left out as long as a       *)
(* non-NaN value was recorded before; after NaN values only, np.nanmax and *)
(* np.nanmin give NaN and the update returns false.                        *)
(***************************************************************************)
C12_HoldsButAfterNaNOnly ==
    [][(/\ Called("update")
        /\ ret'.exc = ""
        /\ ~float(call'.value).val.nan)
       => LET prior == Values(PriorHistory(Heap, call'.tr, call'.name))
              kept == Nums(prior)
              value == float(call'.value).val.num
              direction == Directions(Heap', call'.tr)[call'.name]
          IN ret'.val = PyBool(\/ prior = <<>>
                               \/ /\ kept # <<>>
                                  /\ direction = "max"
                                  /\ \A i \in DOMAIN kept : value >= kept[i]
                               \/ /\ kept # <<>>
                                  /\ direction = "min"
                                  /\ \A i \in DOMAIN kept : value <= kept[i])]_vars

(***************************************************************************)
(* C13 as stated. For a registered metric with a non-empty history,        *)
(* get_best_value gives the least ('min') or greatest ('max') of the       *)
(* non-NaN values wherever the NaN values stand, and NaN only when every   *)
(* value is NaN; get_best_t gives the t of an observation that holds the   *)
(* value get_best_value gives.                                             *)
(***************************************************************************)
ExtremeOfNums(direction, nums) ==
    IF direction = "min" THEN Least(Range(nums)) ELSE Greatest(Range(nums))

C13_BestValueIgnoresNaN ==
    \A tr \in Trackers : \A name \in Range(Names(Heap, tr)) :
        LET history == History(Heap, tr, name)
            kept == Nums(Values(history))
            best == get_best_value(Heap, tr, name)
            best_t == get_best_t(Heap, tr, name)
        IN (HasValues(history) /\ history # <<>>)
             => /\ best.exc = ""
                /\ best.val = IF kept = <<>> THEN PyNaN
                              ELSE PyFloat(ExtremeOfNums(Directions(Heap, tr)[name], kept))
                /\ best_t.exc = ""
                /\ \E i \in DOMAIN history :
                       /\ history[i].value = best.val
                       /\ best_t.val = PyInt(history[i].t)

(***************************************************************************)
(* C13: what holds of the code. The builtins min and max keep a NaN that   *)
(* stands first and pass over every later one; np.argmin and np.argmax     *)
(* stop at the first NaN wherever it stands.                               *)
(***************************************************************************)
C13_HoldsOfMinMaxAndArgminArgmax ==
    \A tr \in Trackers : \A name \in Range(Names(Heap, tr)) :
        LET history == History(Heap, tr, name)
            values == Values(history)
            kept == Nums(values)
            nans == {i \in DOMAIN history : values[i].nan}
            best == get_best_value(Heap, tr, name)
            best_t == get_best_t(Heap, tr, name)
        IN (HasValues(history) /\ history # <<>>)
             => /\ best.exc = "" /\ best_t.exc = ""
                /\ best.val = IF values[1].nan THEN PyNaN
                              ELSE PyFloat(ExtremeOfNums(Directions(Heap, tr)[name], kept))
                /\ nans # {}
                     => best_t.val = PyInt(history[Least(nans)].t)
                /\ nans = {}
                     => [exc |-> "", val |-> best_t.val] = BestTExpected(Heap, tr, name)

(***************************************************************************)
(* C15. get_last_value(name) of a registered metric returns None for an    *)
(* empty history and otherwise the value of the element that stands last   *)
(* in the history. Right after a successful update(name, v, t) it gives    *)
(* float(v) whatever t is, and right after a successful set_history(name,  *)
(* series) with a series that ends in a MetricObservation it gives the     *)
(* value of that observation.                                              *)
(***************************************************************************)
LastValueExpected(h, tr, name) ==
    LET history == History(h, tr, name)
    IN IF history = <<>> THEN [exc |-> "", val |-> PyNone]
       ELSE [exc |-> "", val |-> history[Len(history)].value]

C15_LastValueIsTheLastAppended ==
    [][/\ (/\ Called("get_last_value")
           /\ Registered(Heap, call'.tr, call'.name)
           /\ HasValues(History(Heap, call'.tr, call'.name)))
            => ret' = LastValueExpected(Heap, call'.tr, call'.name)
       /\ (Called("update") /\ ret'.exc = "")
            => LET r == get_last_value(Heap', call'.tr, call'.name)
               IN r.exc = "" /\ r.val = float(call'.value).val
       /\ (/\ Called("set_history")
           /\ ret'.exc = ""
           /\ Heap'.obsLists[call'.series.ref] # <<>>
           /\ HasValues(Heap'.obsLists[call'.series.ref]))
            => LET series == Heap'.obsLists[call'.series.ref]
                   r == get_last_value(Heap', call'.tr, call'.name)
               IN r.exc = "" /\ r.val = series[Len(series)].value]_vars

\* get_last_value after two updates, the second with the smaller t and the
\* worse value.
C15_Witness ==
    /\ call.op = "get_last_value"
    /\ ret = [exc |-> "", val |-> PyFloat(1)]
    /\ Directions(Heap, call.tr)[call.name] = "min"
    /\ LET history == History(Heap, call.tr, call.name)
       IN /\ Len(history) = 2
          /\ history[1] = MetricObservation(PyFloat(0), 1)
          /\ history[2] = MetricObservation(PyFloat(1), 0)

(***************************************************************************)
(* C17. For a metric whose recorded values and new value are not NaN, a    *)
(* successful update(name, value, t) returns true exactly when             *)
(* get_best_value(name) right after it is the value, and when it returns   *)
(* false get_best_value(name) and get_best_t(name) are what they were      *)
(* before it.                                                              *)
(***************************************************************************)
C17_UpdateAgreesWithBestValue ==
    [][(/\ Called("update")
        /\ ret'.exc = ""
        /\ NoNaN(PriorHistory(Heap, call'.tr, call'.name))
        /\ ~float(call'.value).val.nan)
       => LET tr == call'.tr
              name == call'.name
              after == get_best_value(Heap', tr, name)
          IN /\ after.exc = ""
             /\ ret'.val = PyBool(after.val = float(call'.value).val)
             /\ ret'.val = PyBool(FALSE)
                  => /\ Registered(Heap, tr, name)
                     /\ SameAnswer(after, get_best_value(Heap, tr, name))
                     /\ SameAnswer(get_best_t(Heap', tr, name),
                                   get_best_t(Heap, tr, name))]_vars

\* A third update that is not the best: the best value and its t stay those
\* of the second.
C17_Witness ==
    /\ call.op = "update"
    /\ ret = [exc |-> "", val |-> PyBool(FALSE)]
    /\ Directions(Heap, call.tr)[call.name] = "max"
    /\ Values(History(Heap, call.tr, call.name)) = <<PyFloat(0), PyFloat(1), PyFloat(0)>>
    /\ get_best_t(Heap, call.tr, call.name).val = PyInt(History(Heap, call.tr, call.name)[2].t)

(***************************************************************************)
(* The rules of direction inference on a canonical name: 'loss' is 'min'   *)
(* whatever the catalog holds, a name the catalog does not resolve is      *)
(* 'min', a name it resolves to an identity of _MAX_METRICS or of          *)
(* _MAX_METRIC_FNS is 'max', and any other is 'min'.  The identity of a    *)
(* Metric instance is its class name, that of a MeanMetricWrapper the name *)
(* of the function it wraps, that of a function its name.                  *)
(***************************************************************************)
Identity(metric) ==
    IF metric.kind = "Metric" /\ metric.cls # "MeanMetricWrapper" THEN metric.cls
    ELSE metric.fn

DirectionByTheRules(cat, canonical) ==
    IF canonical = LOSS THEN "min"
    ELSE IF canonical \notin DOMAIN cat THEN "min"
    ELSE IF Identity(cat[canonical]) \in _MAX_METRICS \cup _MAX_METRIC_FNS THEN "max"
    ELSE "min"

\* A name with its leading 'val_' taken off.
StripVal(s) ==
    IF Len(s) >= 4 /\ SubSeq(s, 1, 4) = VAL THEN SubSeq(s, 5, Len(s)) ELSE s

\* A name with its leading 'val_' taken off when something follows it.
StripValOfLongerName(s) ==
    IF Len(s) > 4 /\ SubSeq(s, 1, 4) = VAL THEN SubSeq(s, 5, Len(s)) ELSE s

(***************************************************************************)
(* C14 as stated. For every name and every catalog, infer_metric_direction *)
(* gives a direction, the one the rules give for the name with a leading   *)
(* 'val_' stripped.                                                        *)
(***************************************************************************)
C14_AsStated ==
    /\ \A name \in InferNames :
           infer_metric_direction(catalog, PyStr(name)) =
               DirectionByTheRules(catalog, StripVal(name))
    /\ call.op = "infer_metric_direction"
         => ret = [exc |-> "",
                   val |-> PyDirection(DirectionByTheRules(catalog, StripVal(call.metric.chars)))]

(***************************************************************************)
(* C14 as amended. For every name and every catalog,                       *)
(* infer_metric_direction gives a direction, the one the rules give for    *)
(* the canonical name: the name with a leading 'val_' stripped when the    *)
(* name is longer than 'val_', and the name itself otherwise ('val_' is    *)
(* looked up as it is).                                                    *)
(***************************************************************************)
C14_InferFollowsTheRules ==
    /\ \A name \in InferNames :
           infer_metric_direction(catalog, PyStr(name)) =
               DirectionByTheRules(catalog, StripValOfLongerName(name))
    /\ call.op = "infer_metric_direction"
         => ret = [exc |-> "",
                   val |-> PyDirection(DirectionByTheRules(catalog,
                                           StripValOfLongerName(call.metric.chars)))]

\* 'val_accuracy' under a catalog that resolves 'accuracy' to a
\* MeanMetricWrapper of binary_accuracy.
C14_Witness ==
    /\ call.op = "infer_metric_direction"
    /\ call.metric = PyStr(VAL \o ACCURACY)
    /\ ACCURACY \in DOMAIN catalog
    /\ catalog[ACCURACY].cls = "MeanMetricWrapper"
    /\ ret = [exc |-> "", val |-> PyDirection("max")]

(***************************************************************************)
(* C20 as stated. For every non-empty name n and every catalog, the        *)
(* direction inferred for 'val_' + n is the one inferred for n, and a      *)
(* metric that update or set_history registered under 'val_' + n has the   *)
(* direction inferred for n.                                               *)
(***************************************************************************)
PrefixKeepsDirection(n) ==
    /\ infer_metric_direction(catalog, PyStr(VAL \o n)) =
           infer_metric_direction(catalog, PyStr(n))
    /\ \A tr \in Trackers :
           Registered(Heap, tr, VAL \o n)
             => Directions(Heap, tr)[VAL \o n] = infer_metric_direction(catalog, PyStr(n))

C20_AsStated == \A n \in PlainNames : PrefixKeepsDirection(n)

(***************************************************************************)
(* C20 as amended. The same for every non-empty name n that is not itself  *)
(* 'val_' followed by something: of 'val_' + n only the first 'val_' is    *)
(* stripped.                                                               *)
(***************************************************************************)
C20_PrefixKeepsDirection ==
    \A n \in PlainNames :
        ~(Len(n) > 4 /\ SubSeq(n, 1, 4) = VAL) => PrefixKeepsDirection(n)

\* update has registered 'val_accuracy' as a 'max' metric.
C20_Witness ==
    /\ call.op = "update"
    /\ call.name = VAL \o ACCURACY
    /\ ret.exc = ""
    /\ Directions(Heap, call.tr)[VAL \o ACCURACY] = "max"
    /\ infer_metric_direction(catalog, PyStr(ACCURACY)) = "max"

(***************************************************************************)
(* What a config holds: its names, its directions and the elements of the  *)
(* list it holds for each name.                                            *)
(***************************************************************************)
ConfigState(h, cfg) ==
    [names |-> h.nameLists[h.configs[cfg].names],
     directions |-> h.dirDicts[h.configs[cfg].directions],
     histories |-> [name \in DOMAIN h.histDicts[h.configs[cfg].metrics_history] |->
                       h.obsLists[h.histDicts[h.configs[cfg].metrics_history][name]]]]

\* A call that changes a tracker.
Mutation == Called("register") \/ Called("update") \/ Called("set_history")

(***************************************************************************)
(* C18 as stated. A config that get_config returned keeps its names, its   *)
(* directions and every observation sequence over each later register,     *)
(* update and set_history on the tracker it was exported from (taken here  *)
(* while that tracker is the only one).                                    *)
(***************************************************************************)
C18_ConfigIsASnapshot ==
    [][(Mutation /\ Len(trackers) = 1)
       => \A cfg \in Configs : ConfigState(Heap', cfg) = ConfigState(Heap, cfg)]_vars

(***************************************************************************)
(* C18: what holds of the code. The names and the directions of the config *)
(* are copies and stay; the config holds the tracker's own list objects,   *)
(* which stay over register and set_history, and over an update but for    *)
(* the list the update appends to.                                         *)
(***************************************************************************)
C18_HoldsButForTheUpdatedList ==
    [][(Mutation /\ Len(trackers) = 1)
       => \A cfg \in Configs :
              /\ ConfigState(Heap', cfg).names = ConfigState(Heap, cfg).names
              /\ ConfigState(Heap', cfg).directions = ConfigState(Heap, cfg).directions
              /\ \A name \in DOMAIN ConfigState(Heap, cfg).histories :
                     \/ ConfigState(Heap', cfg).histories[name] =
                            ConfigState(Heap, cfg).histories[name]
                     \/ /\ Called("update")
                        /\ ret'.exc = ""
                        /\ Heap.histDicts[Heap.configs[cfg].metrics_history][name] =
                               MetricsHistory(Heap', call'.tr)[call'.name]]_vars

(***************************************************************************)
(* C19 as stated. Of the trackers that from_config built from one config   *)
(* (taken here while that config is the only one), a register, update or   *)
(* set_history on one of them leaves the names, the directions and the     *)
(* histories of every other, and what the config holds, as they were; the  *)
(* others keep names, directions and histories of one key set.             *)
(***************************************************************************)
KeySetsInSync(h, tr) ==
    /\ Range(Names(h, tr)) = DOMAIN Directions(h, tr)
    /\ Range(Names(h, tr)) = DOMAIN MetricsHistory(h, tr)

C19_RestoredTrackersAreIndependent ==
    [][(Mutation /\ Len(configs) = 1 /\ call'.tr > 1)
       => /\ ConfigState(Heap', 1) = ConfigState(Heap, 1)
          /\ \A b \in Trackers \ {1, call'.tr} :
                 /\ TrackerState(Heap', b) = TrackerState(Heap, b)
                 /\ KeySetsInSync(Heap', b)]_vars

(***************************************************************************)
(* C19: what holds of the code. The trackers built from one config and the *)
(* config share one names list and one directions dict; each tracker has   *)
(* its own history dict and lists, so the histories of the others and the  *)
(* sequences of the config stay as they were.                              *)
(***************************************************************************)
C19_HoldsOfTheHistories ==
    [][(Mutation /\ Len(configs) = 1 /\ call'.tr > 1)
       => /\ ConfigState(Heap', 1).histories = ConfigState(Heap, 1).histories
          /\ \A b \in Trackers \ {1, call'.tr} :
                 /\ TrackerState(Heap', b).histories = TrackerState(Heap, b).histories
                 /\ trackers[b].names = configs[1].names
                 /\ trackers[b].directions = configs[1].directions]_vars

(***************************************************************************)
(* C16. Two unserialized calls update(n, ...) for a name n that is not     *)
(* registered.  When one fails with DuplicateMetric, the two calls         *)
(* overlapped, n is registered by the other call and the observation of    *)
(* the failed call is in no history.  When the calls run one after the     *)
(* other, neither fails, the                                               *)
(* history of n is the observation of the first followed by that of the    *)
(* second, and the tracker and the results are those of the two calls made *)
(* in that order.  (The witness is the interleaving with the failure.)     *)
(***************************************************************************)
Observation(c) == MetricObservation(float(c.value).val, c.t)
Recorded(c) == \E l \in DOMAIN obsLists : Observation(c) \in Range(obsLists[l])
AllDone == \A i \in Callers : callers[i].pc = "done"

\* The two calls made one after the other, the caller of rank 1 first.
InTurn ==
    LET first == CHOOSE i \in Callers : callers[i].rank = 1
        second == CHOOSE i \in Callers : callers[i].rank = 2
        start == __init__(EmptyHeap, catalog, PyNone).h
        r1 == update(start, catalog, 1, callers[first].name, callers[first].value,
                     callers[first].t)
        r2 == update(r1.h, catalog, 1, callers[second].name, callers[second].value,
                     callers[second].t)
    IN [first |-> first, second |-> second, r1 |-> r1, r2 |-> r2]

C16_RaceOnAutoRegistration ==
    /\ \A i \in Callers :
           (callers[i].pc = "done" /\ callers[i].exc = "DuplicateMetric")
             => /\ \E j \in Callers \ {i} : callers[i].overlap \/ callers[j].overlap
                /\ Registered(Heap, 1, callers[i].name)
                /\ ~Recorded(callers[i])
    /\ (AllDone /\ \A i \in Callers : ~callers[i].overlap)
         => /\ \A i \in Callers : callers[i].exc = ""
            /\ History(Heap, 1, callers[1].name) =
                   <<Observation(callers[InTurn.first]), Observation(callers[InTurn.second])>>
            /\ TrackerState(Heap, 1) = TrackerState(InTurn.r2.h, 1)
            /\ callers[InTurn.first].val = InTurn.r1.val
            /\ callers[InTurn.second].val = InTurn.r2.val

\* Both calls passed line 63 before either registered; one has registered
\* the name and recorded its observation, the other has failed with
\* DuplicateMetric and its observation is nowhere.
C16_Witness ==
    /\ callers # <<>>
    /\ AllDone
    /\ \E i, j \in Callers :
           /\ i # j
           /\ callers[i].exc = "DuplicateMetric"
           /\ callers[j].exc = ""
           /\ History(Heap, 1, callers[j].name) = <<Observation(callers[j])>>
           /\ ~Recorded(callers[i])

====
